---- MODULE Spec2Model ----
(***************************************************************************)
(* Client-side state machines of the content review front-end:             *)
(*   - usePolling (lib/hooks/usePolling.ts), the polling primitive;        *)
(*   - GenerationProgress (components/GenerationProgress.tsx), the         *)
(*     generation progress tracker, the only consumer of usePolling;       *)
(*   - ReviewPage, ReviewActions, RevisionDialog, VisualDemoPanel and the  *)
(*     ContentAPI calls they make (status updates and revisions).          *)
(*                                                                         *)
(* React is modelled as follows.  A setState call that changes a value    *)
(* marks the component dirty; a later Render step runs the function body   *)
(* with the state of that moment and then the effects whose dependencies   *)
(* changed (cleanups first).  Timers and network responses are separate    *)
(* steps that may happen between a setState and the render it causes.      *)
(* An object created by a render or by a response (a closure, a parsed     *)
(* JSON body) has an identity of its own: two of them are never Object.is  *)
(* equal.                                                                  *)
(***************************************************************************)
EXTENDS Integers, Sequences, FiniteSets, Bags, TLC

\* ---- bounds of the model ----
\* producer calls (package fetches) issued by one mounted hook
MaxFetch == 4
\* re-renders forced by the parent of the tracker
MaxParentRenders == 1

\* user operations started on the review page
MaxOps == 2
\* length of the texts a user types (notes, feedback)
MaxLen == 1

\* ---- program constants ----
\* GENERATION_STAGES.length
NumStages == 7

Null == "null"

VARIABLES
    \* ---------------- usePolling ----------------
    life,         \* "new" (constructed, not yet rendered), "mounted", "unmounted"
    enabled,      \* the `enabled` argument of the latest render
    data,         \* useState data: 0 (null) or the identity of a result
    loading,      \* useState loading
    error,        \* useState error: Null or a message
    intervalRef,  \* intervalRef.current: 0 (null) or a timer id
    timers,       \* timers scheduled by setInterval and not cleared
    inflight,     \* producer calls issued and not yet settled
    issued,       \* number of producer calls issued so far
    dirty,        \* a state change awaits its render
    \* ---------------- GenerationProgress ----------------
    currentStage, \* useState currentStage
    isComplete,   \* useState isComplete
    trackerError, \* useState error of the tracker
    stageTimer,   \* the 20 s stage interval is scheduled
    depData,      \* packageData seen by the latest render
    depComplete,  \* isComplete seen by the latest render
    depError,     \* pollError seen by the latest render
    onCompleteId, \* identity of the onComplete prop handed down by the parent
    depOnComplete,\* onComplete seen by the latest render
    completeCalls,\* number of onComplete invocations
    completedAt,  \* the stage index and packageData the completion effect saw
    packageReturned, \* history: some package fetch has resolved with a package
    \* ---------------- ReviewPage ----------------
    package_,     \* useState package_: the package held (its status field), if any
    currentStatus,\* useState currentStatus
    reviewInfo,   \* useState reviewInfo: the ReviewInfo held (its current_status), if any
    loadingPackage,
    loadingReview,
    isSubmittingRevision,
    revisionComponent,
    revisionHistory, \* useState revisionHistory: an array of entries
    \* ---------------- ReviewActions ----------------
    isSubmitting, \* useState isSubmitting
    statusChanged,\* history: a status change of the page has succeeded
    \* ---------------- VisualDemoPanel ----------------
    saveStatus,   \* useState saveStatus: Null, "success" or "error"
    saveTimers,   \* 3 s timeouts scheduled to clear saveStatus
    \* ---------------- GeneratePage and its form ----------------
    isGenerating, \* useState isGenerating
    generationError, \* useState error of the page: Null or a message
    currentGeneration, \* useState currentGeneration: 0 (null) or the package tracked
    formError,    \* useState error of the form: Null or a message
    generating,   \* generation requests issued and not yet answered
    generated,    \* number of generation requests issued so far
    lastSubmit,   \* the form the last step submitted, if any
    \* ---------------- ContentProvider (the content store) ----------------
    packages,     \* useState packages: the cached list
    storeLoading, \* useState loading
    storeError,   \* useState error: Null or a message
    storePending, \* bag of the store's calls in flight, each with its answer
    storeOps,     \* store calls started by the user so far
    libraryMounted, \* the library page has mounted and run its effect
    serverPackages, \* the ids of the packages the server holds
    deleted,      \* history: the ids whose deletePackage has succeeded
    lastStore,    \* the store call the last step started or finished, if any
    \* ---------------- ContentAPI ----------------
    apiCall,      \* the client method called last and the answer it received
    apiResult,    \* what that call did: the value returned or the Error thrown
    \* ---------------- network ----------------
    pending,      \* bag of the requests issued and not yet answered, with their continuation
    sent,         \* number of requests issued so far, by endpoint
    lastRequest,  \* the request the last step issued, if any: method, path, JSON body
    ops,          \* operations started so far
    \* ---------------- bookkeeping ----------------
    lastCall,     \* the innermost handler or API method the last step reached, with its arguments
    lastResponse, \* the response the last step delivered, if any
    lastAlert,    \* the text the last step showed the user with alert(), if any
    lastChat,     \* the message the last step appended to the chat history, if any
    lastEvent     \* the kind of the step that led to this state

hookVars == <<life, enabled, data, loading, error, intervalRef,
              timers, inflight, issued, dirty>>
trackerVars == <<currentStage, isComplete, trackerError, stageTimer, depData,
                 depComplete, depError, onCompleteId, depOnComplete,
                 completeCalls, completedAt, packageReturned>>
pageVars == <<package_, currentStatus, reviewInfo, loadingPackage,
              loadingReview, isSubmittingRevision, revisionComponent,
              revisionHistory, isSubmitting>>
histVars == <<statusChanged>>
panelVars == <<saveStatus, saveTimers>>
genVars == <<isGenerating, generationError, currentGeneration, formError,
             generating, generated, lastSubmit>>
storeVars == <<packages, storeLoading, storeError, storePending, storeOps,
               libraryMounted, serverPackages, deleted, lastStore>>
apiVars == <<apiCall, apiResult>>
netVars == <<pending, sent, lastRequest, ops>>
ghostVars == <<lastCall, lastResponse, lastAlert, lastChat>>
reviewVars == <<pageVars, histVars, panelVars, apiVars, netVars, ghostVars,
                genVars, storeVars>>
vars == <<hookVars, trackerVars, reviewVars, lastEvent>>

\* ------------------------------------------------------------------------
\* usePolling.  The hook's state is passed around as a record so that the
\* callbacks compose the way the code calls them.
\* ------------------------------------------------------------------------
Hook == [data |-> data, loading |-> loading, error |-> error,
         intervalRef |-> intervalRef, timers |-> timers,
         inflight |-> inflight, issued |-> issued, dirty |-> dirty]

\* setLoading(v): a re-render is scheduled only when the value changes
setLoading(h, v) ==
    [h EXCEPT !.loading = v, !.dirty = h.dirty \/ (h.loading # v)]

setData(h, v) ==
    [h EXCEPT !.data = v, !.dirty = h.dirty \/ (h.data # v)]

setError(h, v) ==
    [h EXCEPT !.error = v, !.dirty = h.dirty \/ (h.error # v)]

\* fetchData with a skip-if-in-flight guard the code does not have
fetchDataSkipsInFlight(h, en) ==
    IF ~en \/ h.loading THEN h
    ELSE LET h1 == setLoading(h, TRUE)
         IN [h1 EXCEPT !.issued = h.issued + 1,
                       !.inflight = h.inflight \cup {h.issued + 1}]

\* fetchData up to its await: `en` is the `enabled` the callback closed over
fetchData(h, en) ==
    IF ~en THEN h
    ELSE LET h1 == setLoading(h, TRUE)
         IN [h1 EXCEPT !.issued = h.issued + 1,
                       !.inflight = h.inflight \cup {h.issued + 1}]

\* a continuation of fetchData that gives up polling when the producer throws
fetchSettledStopsOnError(h, id, ok, result, msg) ==
    LET h0 == [h EXCEPT !.inflight = h.inflight \ {id}]
        h1 == IF ok THEN setError(setData(h0, result), Null)
                    ELSE [setError(h0, msg) EXCEPT !.timers = {}, !.intervalRef = 0]
    IN setLoading(h1, FALSE)

\* fetchData after its await: the producer resolved with `result`
\* (ok = TRUE) or threw `msg` (ok = FALSE)
fetchSettled(h, id, ok, result, msg) ==
    LET h0 == [h EXCEPT !.inflight = h.inflight \ {id}]
        h1 == IF ok THEN setError(setData(h0, result), Null)
                    ELSE setError(h0, msg)
    IN setLoading(h1, FALSE)

\* stopPolling that forgets the timer without clearing it
stopPollingKeepsTimer(h) == [h EXCEPT !.intervalRef = 0]

stopPolling(h) ==
    IF h.intervalRef # 0
    THEN [h EXCEPT !.timers = h.timers \ {h.intervalRef}, !.intervalRef = 0]
    ELSE h

\* the timer created by call number n of setInterval is named by the number
\* of the producer call startPolling has just issued
startPolling(h, en) ==
    IF ~en THEN h
    ELSE LET h1 == fetchData(h, en)
             h2 == IF h1.intervalRef # 0
                   THEN [h1 EXCEPT !.timers = h1.timers \ {h1.intervalRef}]
                   ELSE h1
         IN [h2 EXCEPT !.intervalRef = h1.issued,
                       !.timers = h2.timers \cup {h1.issued}]

\* a refresh that goes through startPolling
refreshRestartsPolling(h, en) == startPolling(h, en)

refresh(h, en) == fetchData(h, en)

\* the effect of usePolling at a render: `first` is the mount, `changed`
\* says whether [enabled, startPolling, stopPolling] differ from the last
\* render (startPolling is a new function whenever fetchFn, interval or
\* enabled changed)
pollingEffect(h, en, first, changed) ==
    IF ~(first \/ changed) THEN h
    ELSE LET h1 == IF first THEN h ELSE stopPolling(h)
         IN IF en THEN startPolling(h1, en) ELSE stopPolling(h1)

SetHook(h) ==
    /\ data' = h.data
    /\ loading' = h.loading
    /\ error' = h.error
    /\ intervalRef' = h.intervalRef
    /\ timers' = h.timers
    /\ inflight' = h.inflight
    /\ issued' = h.issued
    /\ dirty' = h.dirty


\* ------------------------------------------------------------------------
\* Texts.  A text is a sequence of tokens: " " is a whitespace character,
\* every other token is a run of non-whitespace characters.
\* ------------------------------------------------------------------------
Tokens == {" ", "a"}

\* two runs of non-whitespace characters are never adjacent
Texts ==
    {s \in UNION {[1..n -> Tokens] : n \in 0..MaxLen} :
        \A i \in 1..(Len(s) - 1) : s[i] = " " \/ s[i + 1] = " "}

RECURSIVE trimStart(_)
trimStart(s) ==
    IF s # <<>> /\ Head(s) = " " THEN trimStart(Tail(s)) ELSE s

RECURSIVE trimEnd(_)
trimEnd(s) ==
    IF s # <<>> /\ s[Len(s)] = " " THEN trimEnd(SubSeq(s, 1, Len(s) - 1)) ELSE s

\* String.prototype.trim
trim(s) == trimEnd(trimStart(s))

\* a fixed message of the program, as a text
Msg(m) == <<m>>

\* ------------------------------------------------------------------------
\* Domain values
\* ------------------------------------------------------------------------
Statuses == {"draft", "generated", "under_review", "approved", "rejected",
             "needs_revision", "published"}

\* the status values the type ReviewStatusUpdate admits
UpdateStatuses == {"approved", "rejected", "needs_revision", "under_review"}

\* the statuses the ReviewActions dialogs offer
ActionStatuses == {"approved", "rejected", "needs_revision"}

Components == {"reading", "visual", "audio", "practice"}

\* the components the package under review has: the page renders a panel
\* for each of them
PackageComponents == {"reading", "visual"}

\* the statuses the stored package is loaded with
StoredStatuses == {"generated"}

\* the statuses the server reports in the answers to review-info, status
\* update and revision requests
AnswerStatuses == {"needs_revision", "approved"}

Priorities == {"low", "medium", "high"}

reviewerId == "educator_123"

\* response statuses: success, not found, any other failure
HttpStatus == {200, 404, 500}

NoRequest == [method |-> Null, path |-> Null, body |-> Null]

\* ------------------------------------------------------------------------
\* ContentAPI: the requests the client builds
\* ------------------------------------------------------------------------
\* updatePackageStatus: PUT /api/v1/packages/{id}/status with the
\* ReviewStatusUpdate as JSON body
updatePackageStatus(statusUpdate) ==
    [method |-> "PUT", path |-> "/packages/{id}/status", body |-> statusUpdate]

\* approvePackage: `notes || default`, the empty text alone is falsy
approvePackage(notes) ==
    updatePackageStatus([status |-> "approved", reviewer_id |-> reviewerId,
        notes |-> IF notes # <<>> THEN notes
                  ELSE Msg("Package approved for publication")])

\* reviseContentPackage: PUT /api/v1/content/{id}/revise
reviseContentPackage(revisions, reviewer) ==
    [method |-> "PUT", path |-> "/content/{id}/revise",
     body |-> [package_id |-> "{id}", subject |-> "{subject}", unit |-> "{unit}",
               revisions |-> revisions, reviewer_id |-> reviewer]]

\* an error message that ignores the detail of the response body
errorMessageFallbackOnly(detail, fallback) == fallback

\* the message of the Error a failed PUT throws: the server's detail when
\* the body has one, else the endpoint's fallback
errorMessage(detail, fallback) == IF detail # Null THEN detail ELSE fallback

\* ------------------------------------------------------------------------
\* ContentAPI: what each method does with the answer to its request
\* ------------------------------------------------------------------------
Endpoints == {"generateContent", "reviseContentPackage", "updatePackageStatus",
              "listContentPackages", "getReviewQueue",
              "getContentPackage", "getPackageReviewInfo",
              "getRevisionHistory", "deleteContentPackage", "healthCheck"}

\* response statuses the server answers with
ApiHttp == {200, 400, 404, 500}

\* response bodies: JSON with a detail field, JSON without one, not JSON
ApiBodies == {"detail", "nodetail", "unparsable"}

\* response.ok
responseOk(http) == http \in 200..299

\* the methods that read the body of a non-2xx answer
readsDetail(endpoint) ==
    endpoint \in {"generateContent", "reviseContentPackage", "updatePackageStatus"}

\* the detail of `response.json().catch(() => ({ detail: ... }))`
errorDetail(endpoint, body) ==
    CASE body = "detail" -> "server detail"
      [] body = "nodetail" -> Null
      [] OTHER ->
           CASE endpoint = "generateContent" -> "Generation failed"
             [] endpoint = "reviseContentPackage" -> "Revision failed"
             [] OTHER -> "Status update failed"

\* the message each method throws when it has nothing more specific
fallbackMessage(endpoint) ==
    CASE endpoint = "generateContent" -> "Failed to generate content"
      [] endpoint = "reviseContentPackage" -> "Failed to revise content package"
      [] endpoint = "updatePackageStatus" -> "Failed to update package status"
      [] endpoint = "listContentPackages" -> "Failed to list content packages"
      [] endpoint = "getReviewQueue" -> "Failed to get packages for review"
      [] endpoint = "getContentPackage" -> "Failed to retrieve content package"
      [] endpoint = "getPackageReviewInfo" -> "Failed to get package review info"
      [] endpoint = "getRevisionHistory" -> "Failed to get revision history"
      [] OTHER -> Null

\* the message of the 404 branch of the methods that have one
notFoundMessage(endpoint) ==
    CASE endpoint = "getContentPackage" -> "Content package not found"
      [] endpoint = "getPackageReviewInfo" -> "Package not found"
      [] OTHER -> Null

Returned(v) == [threw |-> FALSE, value |-> v, message |-> Null]
Threw(m) == [threw |-> TRUE, value |-> Null, message |-> m]

\* the outcome of a client method for the answer (http, body)
apiOutcome(endpoint, http, body) ==
    CASE endpoint = "deleteContentPackage" ->
           Returned(IF responseOk(http) THEN "true" ELSE "false")
      [] endpoint = "healthCheck" -> Returned("response.json()")
      [] responseOk(http) -> Returned("response.json()")
      [] endpoint = "getRevisionHistory" ->
           IF http = 404 THEN Returned("[]") ELSE Threw(fallbackMessage(endpoint))
      [] notFoundMessage(endpoint) # Null ->
           IF http = 404 THEN Threw(notFoundMessage(endpoint))
                         ELSE Threw(fallbackMessage(endpoint))
      [] readsDetail(endpoint) ->
           Threw(errorMessage(errorDetail(endpoint, body), fallbackMessage(endpoint)))
      [] OTHER -> Threw(fallbackMessage(endpoint))

NoApiCall == [endpoint |-> Null, http |-> 0, body |-> Null]

InitApi ==
    /\ apiCall = NoApiCall
    /\ apiResult = Returned(Null)

\* ------------------------------------------------------------------------
\* ReviewActions
\* ------------------------------------------------------------------------
getDefaultMessage(status) ==
    CASE status = "approved" -> Msg("Package approved for publication")
      [] status = "rejected" ->
             Msg("Package rejected - needs significant improvements")
      [] status = "needs_revision" ->
             Msg("Package needs minor revisions before approval")
      [] OTHER -> Msg("Status updated")

\* the guard without its trim: whitespace counts as notes
notesMissingUntrimmed(status, notes) == notes = <<>> /\ status # "approved"

\* the guard at the head of handleStatusUpdate
notesMissing(status, notes) == trim(notes) = <<>> /\ status # "approved"

\* a ReviewStatusUpdate that substitutes no default for blank notes
reviewStatusUpdateRawNotes(status, notes) ==
    [status |-> status, reviewer_id |-> reviewerId, notes |-> trim(notes)]

\* the ReviewStatusUpdate handleStatusUpdate sends
reviewStatusUpdate(status, notes) ==
    [status |-> status, reviewer_id |-> reviewerId,
     notes |-> IF trim(notes) # <<>> THEN trim(notes)
               ELSE getDefaultMessage(status)]

\* the alerts of handleStatusUpdate
successAlert(status) ==
    CASE status = "approved" -> Msg("Package approved successfully!")
      [] status = "rejected" -> Msg("Package rejected successfully!")
      [] OTHER -> Msg("Package marked for revision successfully!")

failureAlert(status, message) == <<"Failed to", status, "package:", message>>

\* a page that takes its status from the body of the answer
statusAfterUpdateFromAnswer(status, result) == result.status

\* the status ReviewActions hands to onStatusUpdate after a successful
\* update: `result` is the response body
statusAfterUpdate(status, result) == status

\* ------------------------------------------------------------------------
\* ReviewPage
\* ------------------------------------------------------------------------
\* a revisions array that drops the priority the reviewer chose
revisionsOfDefaultPriority(componentType, feedback, priority) ==
    <<[component_type |-> componentType, feedback |-> feedback,
       priority |-> "medium"]>>

\* the revisions array handleRevisionRequest passes to reviseContentPackage
revisionsOf(componentType, feedback, priority) ==
    <<[component_type |-> componentType, feedback |-> feedback,
       priority |-> priority]>>

\* the status handleRevisionRequest sets after a successful revision:
\* `revisedPackage` is the response body
statusAfterRevision(revisedPackage) == "needs_revision"

\* the status handleSavePackage sets after a successful update
statusAfterSave(result) == "under_review"

\* the status handleApprovePackage sets after a successful update
statusAfterApprove(result) == "approved"

NoPackage == [loaded |-> FALSE, status |-> Null]
NoReviewInfo == [loaded |-> FALSE, current_status |-> Null]
NoAlert == <<>>
NoChat == Null
NoCall == [op |-> Null, status |-> Null, component |-> Null, text |-> <<>>,
           priority |-> Null]
\* `history` is the status of the answer to a history request, 0 if the
\* step delivered none; `target` is the status the answered request asked
\* for; `origin` is the handler that sent a revision
NoResponse == [kind |-> Null, ok |-> FALSE, status |-> Null, detail |-> Null,
               history |-> 0, target |-> Null, origin |-> Null]

\* A JSON value is an array with its items, or something else (null, an
\* object).
EmptyList == [array |-> TRUE, items |-> <<>>]

\* the bodies a 200 answer to the history request may carry
HistoryBodies == {EmptyList, [array |-> TRUE, items |-> <<"revision">>],
                  [array |-> FALSE, items |-> <<>>]}

\* getRevisionHistory: the parsed body, [] on 404, an Error otherwise
getRevisionHistory(http, body) ==
    IF http = 200 THEN [ok |-> TRUE, value |-> body]
    ELSE IF http = 404 THEN [ok |-> TRUE, value |-> EmptyList]
         ELSE [ok |-> FALSE, value |-> EmptyList]

\* a history setter that trusts the value it is given
arrayOrEmptyUnchecked(v) == v

\* Array.isArray(v) ? v : []
arrayOrEmpty(v) == IF v.array THEN v ELSE EmptyList

\* the review page renders its tabs and panels
PageShown == package_.loaded /\ ~loadingPackage

\* the page after its first render with subject and unit present: both
\* load effects have issued their requests
InitReview ==
    /\ package_ = NoPackage
    /\ currentStatus = "generated"
    /\ reviewInfo = NoReviewInfo
    /\ loadingPackage = TRUE
    /\ loadingReview = TRUE
    /\ isSubmittingRevision = FALSE
    /\ revisionComponent = Null
    /\ revisionHistory = EmptyList
    /\ isSubmitting = FALSE
    /\ statusChanged = FALSE
    /\ saveStatus = Null
    /\ saveTimers = 0
    /\ pending = SetToBag({[kind |-> "package", origin |-> "load", arg |-> Null],
                            [kind |-> "reviewData", origin |-> "load", arg |-> Null]})
    /\ sent = [get |-> 3, status |-> 0, revise |-> 0]
    /\ lastRequest = NoRequest
    /\ ops = 0
    /\ lastCall = NoCall
    /\ lastResponse = NoResponse
    /\ lastAlert = NoAlert
    /\ lastChat = NoChat


\* ------------------------------------------------------------------------
\* The review page: requests, responses and handlers
\* ------------------------------------------------------------------------
\* fetch(): the request goes out and its continuation waits for the answer
Send(req, endpoint, kind, origin, arg) ==
    /\ pending' = pending (+)
           SetToBag({[kind |-> kind, origin |-> origin, arg |-> arg]})
    /\ sent' = [sent EXCEPT ![endpoint] = @ + 1]
    /\ lastRequest' = req

Get(path) == [method |-> "GET", path |-> path, body |-> Null]

\* loadPackage after its await of getPackage
PackageLoaded ==
    /\ \E r \in BagToSet(pending), ok \in BOOLEAN :
       \E st \in (IF ok THEN StoredStatuses \cup {Null} ELSE {Null}) :
          /\ r.kind = "package"
          /\ pending' = pending (-) SetToBag({r})
          /\ IF ok
             THEN /\ package_' = [loaded |-> TRUE, status |-> st]
                  /\ currentStatus' = IF st # Null THEN st ELSE "generated"
                  /\ lastResponse' = [NoResponse EXCEPT !.kind = "package",
                                         !.ok = TRUE, !.status = st]
             ELSE /\ UNCHANGED <<package_, currentStatus>>
                  /\ lastResponse' = [NoResponse EXCEPT !.kind = "package"]
    /\ loadingPackage' = FALSE
    /\ lastAlert' = NoAlert
    /\ UNCHANGED <<reviewInfo, loadingReview, isSubmittingRevision,
                   revisionComponent, revisionHistory, isSubmitting>>
    /\ UNCHANGED <<sent, ops>>
    /\ lastRequest' = NoRequest
    /\ lastCall' = NoCall
    /\ lastChat' = NoChat
    /\ UNCHANGED <<histVars, apiVars, genVars, storeVars, hookVars,
                   trackerVars, panelVars>>
    /\ lastEvent' = "packageLoaded"

\* loadReviewData after its await of Promise.all: each of the two calls
\* carries its own catch
ReviewDataLoaded ==
    /\ \E r \in BagToSet(pending), review \in AnswerStatuses \cup {Null},
          http \in HttpStatus :
       \E body \in (IF http = 200 THEN HistoryBodies ELSE {EmptyList}) :
          LET hist == getRevisionHistory(http, body)
          IN /\ r.kind = "reviewData"
             /\ pending' = pending (-) SetToBag({r})
             /\ IF review # Null
                THEN /\ reviewInfo' = [loaded |-> TRUE, current_status |-> review]
                     /\ currentStatus' = review
                ELSE UNCHANGED <<reviewInfo, currentStatus>>
             /\ revisionHistory' = arrayOrEmpty(IF hist.ok THEN hist.value
                                                           ELSE EmptyList)
             /\ lastResponse' = [NoResponse EXCEPT !.kind = "reviewInfo",
                                     !.ok = review # Null, !.status = review,
                                     !.history = http]
    /\ loadingReview' = FALSE
    /\ lastAlert' = NoAlert
    /\ UNCHANGED <<package_, loadingPackage, isSubmittingRevision,
                   revisionComponent, isSubmitting>>
    /\ UNCHANGED <<sent, ops>>
    /\ lastRequest' = NoRequest
    /\ lastCall' = NoCall
    /\ lastChat' = NoChat
    /\ UNCHANGED <<histVars, apiVars, genVars, storeVars, hookVars,
                   trackerVars, panelVars>>
    /\ lastEvent' = "reviewDataLoaded"

\* ReviewActions.handleStatusUpdate up to its await, from the Confirm button
\* of a dialog (disabled while isSubmitting)
ConfirmStatus ==
    /\ PageShown /\ ~loadingReview /\ ~isSubmitting
    /\ ops < MaxOps
    /\ \E status \in ActionStatuses, notes \in Texts :
          /\ lastCall' = [NoCall EXCEPT !.op = "handleStatusUpdate",
                                        !.status = status, !.text = notes]
          /\ IF notesMissing(status, notes)
             THEN /\ lastAlert' = Msg("Please provide review notes")
                  /\ lastRequest' = NoRequest
                  /\ UNCHANGED <<isSubmitting, pending, sent>>
             ELSE /\ lastAlert' = NoAlert
                  /\ isSubmitting' = TRUE
                  /\ Send(updatePackageStatus(reviewStatusUpdate(status, notes)),
                          "status", "status", "ReviewActions", status)
    /\ ops' = ops + 1
    /\ UNCHANGED <<package_, currentStatus, reviewInfo, loadingPackage,
                   loadingReview, isSubmittingRevision, revisionComponent,
                   revisionHistory>>
    /\ lastResponse' = NoResponse
    /\ lastChat' = NoChat
    /\ UNCHANGED <<histVars, apiVars, genVars, storeVars, hookVars,
                   trackerVars, panelVars>>
    /\ lastEvent' = "statusCall"

\* ReviewPage.handleSavePackage up to its await (VisualDemoPanel's Save
\* button is disabled while a save is in flight)
SavePackage ==
    /\ PageShown
    /\ ops < MaxOps
    /\ ~\E r \in BagToSet(pending) : r.origin = "save"
    /\ lastCall' = [NoCall EXCEPT !.op = "handleSavePackage",
                                  !.status = "under_review",
                                  !.text = Msg("Package saved and marked for review")]
    /\ Send(updatePackageStatus([status |-> "under_review",
                reviewer_id |-> reviewerId,
                notes |-> Msg("Package saved and marked for review")]),
            "status", "status", "save", "under_review")
    /\ saveStatus' = Null
    /\ UNCHANGED saveTimers
    /\ ops' = ops + 1
    /\ lastAlert' = NoAlert
    /\ lastResponse' = NoResponse
    /\ UNCHANGED pageVars
    /\ lastChat' = NoChat
    /\ UNCHANGED <<histVars, apiVars, genVars, storeVars, hookVars, trackerVars>>
    /\ lastEvent' = "statusCall"

\* ReviewPage.handleApprovePackage up to its await (the Approve button is
\* disabled while a visual revision is being submitted)
ApprovePackage ==
    /\ PageShown
    /\ ops < MaxOps
    /\ ~(isSubmittingRevision /\ revisionComponent = "visual")
    /\ lastCall' = [NoCall EXCEPT !.op = "handleApprovePackage",
                                  !.status = "approved",
                                  !.text = Msg("Package approved for publication")]
    /\ Send(approvePackage(Msg("Package approved for publication")),
            "status", "status", "approve", "approved")
    /\ ops' = ops + 1
    /\ lastAlert' = NoAlert
    /\ lastResponse' = NoResponse
    /\ UNCHANGED pageVars
    /\ lastChat' = NoChat
    /\ UNCHANGED <<histVars, apiVars, genVars, storeVars, hookVars,
                   trackerVars, panelVars>>
    /\ lastEvent' = "statusCall"

\* updatePackageStatus after its await, and the handler that called it.
\* The server answers 2xx with a body whose new_status is its own choice,
\* or non-2xx with or without a detail.
StatusAnswered ==
    /\ \E r \in BagToSet(pending), ok \in BOOLEAN :
       \E newStatus \in (IF ok THEN AnswerStatuses ELSE {Null}),
          detail \in (IF ok THEN {Null} ELSE {Null, "server detail"}) :
          LET result == [kind |-> "status", ok |-> ok,
                         status |-> newStatus, detail |-> detail,
                         history |-> 0, target |-> r.arg, origin |-> Null]
              message == errorMessage(detail, "Failed to update package status")
          IN /\ r.kind = "status"
             /\ lastResponse' = result
             /\ CASE r.origin = "ReviewActions" ->
                      \* onStatusUpdate is ReviewPage.handleStatusUpdate: it
                      \* sets the status and re-fetches the review info
                      /\ isSubmitting' = FALSE
                      /\ UNCHANGED panelVars
                      /\ IF ok
                         THEN /\ currentStatus' = statusAfterUpdate(r.arg, result)
                              /\ pending' = (pending (-) SetToBag({r})) (+)
                                     SetToBag({[kind |-> "reviewInfo",
                                       origin |-> "handleStatusUpdate",
                                       arg |-> Null]})
                              /\ sent' = [sent EXCEPT !.get = @ + 1]
                              /\ lastRequest' = Get("/packages/{id}/review-info")
                              /\ lastAlert' = successAlert(r.arg)
                         ELSE /\ pending' = pending (-) SetToBag({r})
                              /\ lastAlert' = failureAlert(r.arg, message)
                              /\ lastRequest' = NoRequest
                              /\ UNCHANGED <<currentStatus, sent>>
                  [] r.origin = "save" ->
                      /\ pending' = pending (-) SetToBag({r})
                      /\ currentStatus' = IF ok THEN statusAfterSave(result)
                                                ELSE currentStatus
                      /\ lastAlert' = IF ok THEN Msg("Package saved successfully!")
                                            ELSE NoAlert
                      \* on failure the handler rethrows; VisualDemoPanel's
                      \* handleSavePackage sets saveStatus and, in its
                      \* finally block, schedules the 3 s reset
                      /\ saveStatus' = IF ok THEN "success" ELSE "error"
                      /\ saveTimers' = saveTimers + 1
                      /\ lastRequest' = NoRequest
                      /\ UNCHANGED <<isSubmitting, sent>>
                  [] OTHER ->
                      /\ pending' = pending (-) SetToBag({r})
                      /\ currentStatus' = IF ok THEN statusAfterApprove(result)
                                                ELSE currentStatus
                      \* on failure the handler rethrows; VisualDemoPanel's
                      \* handleApprovePackage logs it to the console
                      /\ lastAlert' = IF ok THEN Msg("Package approved successfully!")
                                            ELSE NoAlert
                      /\ lastRequest' = NoRequest
                      /\ UNCHANGED <<isSubmitting, sent, panelVars>>
             /\ lastEvent' = IF ok THEN "statusOk" ELSE "statusFail"
    /\ UNCHANGED <<package_, reviewInfo, loadingPackage, loadingReview,
                   isSubmittingRevision, revisionComponent, revisionHistory>>
    /\ UNCHANGED ops
    /\ lastCall' = NoCall
    /\ statusChanged' = (statusChanged \/ lastEvent' = "statusOk")
    /\ lastChat' = NoChat
    /\ UNCHANGED <<apiVars, genVars, storeVars, hookVars, trackerVars>>

\* the timeout VisualDemoPanel.handleSavePackage scheduled fires:
\* setSaveStatus(null)
SaveStatusTimeout ==
    /\ saveTimers > 0
    /\ saveTimers' = saveTimers - 1
    /\ saveStatus' = Null
    /\ UNCHANGED <<pageVars, pending, sent, ops>>
    /\ lastRequest' = NoRequest
    /\ lastCall' = NoCall
    /\ lastResponse' = NoResponse
    /\ lastAlert' = NoAlert
    /\ lastChat' = NoChat
    /\ UNCHANGED <<histVars, apiVars, genVars, storeVars, hookVars, trackerVars>>
    /\ lastEvent' = "saveStatusTimeout"

\* the review-info fetch of ReviewPage.handleStatusUpdate is answered:
\* .then(setReviewInfo).catch(console.error)
ReviewInfoAnswered ==
    /\ \E r \in BagToSet(pending), review \in AnswerStatuses \cup {Null} :
          /\ r.kind = "reviewInfo"
          /\ pending' = pending (-) SetToBag({r})
          /\ reviewInfo' = IF review # Null
                           THEN [loaded |-> TRUE, current_status |-> review]
                           ELSE reviewInfo
          /\ lastResponse' = [NoResponse EXCEPT !.kind = "reviewInfo",
                                  !.ok = review # Null, !.status = review]
    /\ lastAlert' = NoAlert
    /\ UNCHANGED <<package_, currentStatus, loadingPackage, loadingReview,
                   isSubmittingRevision, revisionComponent, revisionHistory,
                   isSubmitting>>
    /\ UNCHANGED <<sent, ops>>
    /\ lastRequest' = NoRequest
    /\ lastCall' = NoCall
    /\ lastChat' = NoChat
    /\ UNCHANGED <<histVars, apiVars, genVars, storeVars, hookVars,
                   trackerVars, panelVars>>
    /\ lastEvent' = "reviewInfoAnswered"

\* whether the promise handleRevisionRequest returns rejects: its catch
\* block alerts and does not rethrow, whatever the revision request did
revisionPromiseRejects(ok) == FALSE

\* the assistant message handleChatSubmit appends once the promise of
\* onRevisionRequest has settled
chatReply(rejected) == IF rejected THEN "failure" ELSE "confirmation"

\* ReviewPage.handleRevisionRequest up to its await
\* (`caller` is the handler that holds the promise it returns)
handleRevisionRequest(componentType, feedback, priority, caller) ==
    IF ~package_.loaded
    THEN /\ lastRequest' = NoRequest
         /\ lastCall' = NoCall
         /\ UNCHANGED <<isSubmittingRevision, revisionComponent, pending, sent>>
    ELSE /\ isSubmittingRevision' = TRUE
         /\ revisionComponent' = componentType
         /\ lastCall' = [op |-> "handleRevisionRequest", status |-> Null,
                         component |-> componentType, text |-> feedback,
                         priority |-> priority]
         /\ Send(reviseContentPackage(
                     revisionsOf(componentType, feedback, priority), reviewerId),
                 "revise", "revise", caller, componentType)

\* RevisionDialog.handleSubmit from the Submit button of a panel's dialog;
\* the button is disabled while the feedback is blank or the panel is
\* submitting
DialogSubmit ==
    /\ PageShown
    /\ ops < MaxOps
    /\ \E c \in PackageComponents, feedback \in Texts, priority \in Priorities :
          /\ trim(feedback) # <<>>
          /\ ~(isSubmittingRevision /\ revisionComponent = c)
          /\ IF trim(feedback) # <<>>
             THEN handleRevisionRequest(c, feedback, priority, "dialog")
             ELSE /\ lastCall' = [op |-> "RevisionDialog.handleSubmit",
                                  status |-> Null, component |-> c,
                                  text |-> feedback, priority |-> priority]
                  /\ lastRequest' = NoRequest
                  /\ UNCHANGED <<isSubmittingRevision, revisionComponent,
                                 pending, sent>>
    /\ ops' = ops + 1
    /\ lastAlert' = NoAlert
    /\ UNCHANGED <<package_, currentStatus, reviewInfo, loadingPackage,
                   loadingReview, revisionHistory, isSubmitting>>
    /\ lastResponse' = NoResponse
    /\ lastChat' = NoChat
    /\ UNCHANGED <<histVars, apiVars, genVars, storeVars, hookVars,
                   trackerVars, panelVars>>
    /\ lastEvent' = "revisionSubmit"

\* VisualDemoPanel.handleChatSubmit up to its await, from the Enter key of
\* the chat box (the box is disabled while the panel is submitting)
ChatSubmit ==
    /\ PageShown
    /\ ops < MaxOps
    /\ ~(isSubmittingRevision /\ revisionComponent = "visual")
    /\ \E chatMessage \in Texts, priority \in Priorities :
          /\ IF trim(chatMessage) = <<>>
             THEN /\ lastCall' = [op |-> "handleChatSubmit", status |-> Null,
                                  component |-> "visual", text |-> chatMessage,
                                  priority |-> priority]
                  /\ lastRequest' = NoRequest
                  /\ lastChat' = NoChat
                  /\ UNCHANGED <<isSubmittingRevision, revisionComponent,
                                 pending, sent>>
             ELSE /\ lastChat' = "user"
                  /\ handleRevisionRequest("visual", trim(chatMessage),
                                           priority, "chat")
    /\ ops' = ops + 1
    /\ lastAlert' = NoAlert
    /\ UNCHANGED <<package_, currentStatus, reviewInfo, loadingPackage,
                   loadingReview, revisionHistory, isSubmitting>>
    /\ lastResponse' = NoResponse
    /\ UNCHANGED <<histVars, apiVars, genVars, storeVars, hookVars,
                   trackerVars, panelVars>>
    /\ lastEvent' = "revisionSubmit"

\* reviseContentPackage after its await, and handleRevisionRequest after it:
\* on success the page takes the package, sets the status and re-fetches
\* the history; on failure it alerts and its finally block runs
RevisionAnswered ==
    /\ \E r \in BagToSet(pending), ok \in BOOLEAN :
       \E st \in (IF ok THEN AnswerStatuses ELSE {Null}),
          detail \in (IF ok THEN {Null} ELSE {Null, "server detail"}) :
          LET message == errorMessage(detail, "Failed to revise content package")
              revisedPackage == [loaded |-> TRUE, status |-> st]
          IN /\ r.kind = "revise"
             /\ lastResponse' = [kind |-> "revise", ok |-> ok,
                                 status |-> st, detail |-> detail,
                                 history |-> 0, target |-> Null,
                                 origin |-> r.origin]
             /\ IF ok
                THEN /\ package_' = revisedPackage
                     /\ currentStatus' = statusAfterRevision(revisedPackage)
                     /\ pending' = (pending (-) SetToBag({r})) (+)
                            SetToBag({[kind |-> "history",
                              origin |-> r.origin, arg |-> r.arg]})
                     /\ sent' = [sent EXCEPT !.get = @ + 1]
                     /\ lastRequest' = Get("/content/{id}/revisions")
                     /\ lastAlert' = NoAlert
                     /\ lastChat' = NoChat
                     /\ UNCHANGED <<isSubmittingRevision, revisionComponent>>
                ELSE /\ pending' = pending (-) SetToBag({r})
                     /\ lastAlert' = <<"Revision request failed:", message>>
                     /\ isSubmittingRevision' = FALSE
                     /\ revisionComponent' = Null
                     /\ lastRequest' = NoRequest
                     \* the promise handleChatSubmit awaits settles
                     /\ lastChat' = IF r.origin = "chat"
                                    THEN chatReply(revisionPromiseRejects(FALSE))
                                    ELSE NoChat
                     /\ UNCHANGED <<package_, currentStatus, sent>>
             /\ lastEvent' = IF ok THEN "reviseOk" ELSE "reviseFail"
    /\ UNCHANGED <<reviewInfo, loadingPackage, loadingReview, revisionHistory,
                   isSubmitting>>
    /\ UNCHANGED ops
    /\ lastCall' = NoCall
    /\ statusChanged' = (statusChanged \/ lastEvent' = "reviseOk")
    /\ UNCHANGED <<apiVars, genVars, storeVars, hookVars, trackerVars,
                   panelVars>>

\* the history re-fetch of handleRevisionRequest is answered; the handler
\* alerts success and its finally block runs
HistoryAnswered ==
    /\ \E r \in BagToSet(pending), http \in HttpStatus :
       \E body \in (IF http = 200 THEN HistoryBodies ELSE {EmptyList}) :
          LET hist == getRevisionHistory(http, body)
          IN /\ r.kind = "history"
             /\ pending' = pending (-) SetToBag({r})
             /\ revisionHistory' = IF hist.ok THEN arrayOrEmpty(hist.value)
                                              ELSE revisionHistory
             /\ lastAlert' = <<r.arg, "revision request submitted successfully!">>
             /\ lastResponse' = [NoResponse EXCEPT !.kind = "history",
                                     !.ok = hist.ok, !.history = http,
                                     !.origin = r.origin]
             \* the promise handleChatSubmit awaits settles
             /\ lastChat' = IF r.origin = "chat"
                            THEN chatReply(revisionPromiseRejects(TRUE))
                            ELSE NoChat
    /\ isSubmittingRevision' = FALSE
    /\ revisionComponent' = Null
    /\ UNCHANGED <<package_, currentStatus, reviewInfo, loadingPackage,
                   loadingReview, isSubmitting>>
    /\ UNCHANGED <<sent, ops>>
    /\ lastRequest' = NoRequest
    /\ lastCall' = NoCall
    /\ UNCHANGED <<histVars, apiVars, genVars, storeVars, hookVars,
                   trackerVars, panelVars>>
    /\ lastEvent' = "historyAnswered"

NextReview ==
    \/ PackageLoaded
    \/ ReviewDataLoaded
    \/ ConfirmStatus
    \/ SavePackage
    \/ ApprovePackage
    \/ StatusAnswered
    \/ SaveStatusTimeout
    \/ ReviewInfoAnswered
    \/ DialogSubmit
    \/ ChatSubmit
    \/ RevisionAnswered
    \/ HistoryAnswered

\* ------------------------------------------------------------------------
\* The generation form (EnhancedContentGenerationForm, and the basic
\* ContentGenerationForm before it) and GeneratePage
\* ------------------------------------------------------------------------
\* the subject select holds '' or one of the listed subjects
SubjectChoices == {<<>>, <<"a">>}

\* a text input holds nothing, blanks only, or something else
FieldTexts == {<<>>, <<" ">>, <<"a">>}

GenerationModes == {"manual", "curriculum"}

\* a form as it is submitted: which component, its mode, whether a subskill
\* of the curriculum is selected, and the required fields of the manual form
Forms ==
    {f \in [form : {"enhanced", "basic"}, mode : GenerationModes,
            selectedSubskill : BOOLEAN, subject : SubjectChoices,
            unit : FieldTexts, skill : FieldTexts, subskill : FieldTexts] :
        f.form = "basic" => (f.mode = "manual" /\ ~f.selectedSubskill)}

NoSubmit == [form |-> Null, mode |-> Null, selectedSubskill |-> FALSE,
             subject |-> <<>>, unit |-> <<>>, skill |-> <<>>, subskill |-> <<>>]

\* a manual-mode test that forgets the subskill
manualFieldMissingNoSubskill(f) ==
    f.subject = <<>> \/ f.unit = <<>> \/ f.skill = <<>>

\* the manual-mode test of handleSubmit: `!s` holds of the empty string only
manualFieldMissing(f) ==
    f.subject = <<>> \/ f.unit = <<>> \/ f.skill = <<>> \/ f.subskill = <<>>

\* the validation at the head of handleSubmit
requiredMissing(f) ==
    IF f.mode = "curriculum" THEN ~f.selectedSubskill ELSE manualFieldMissing(f)

validationMessage(f) ==
    IF f.mode = "curriculum" THEN "Please select a subskill from the curriculum"
                             ELSE "Please fill in all required fields"

\* the `disabled` attribute of the submit button
submitDisabled(busy, f) == busy \/ requiredMissing(f)

\* generateContentEnhanced: POST /api/v1/generate-content-enhanced
generateContentEnhanced(f) ==
    [method |-> "POST", path |-> "/generate-content-enhanced",
     body |-> IF f.mode = "curriculum"
              THEN [mode |-> "curriculum", subskill_id |-> "{subskill_id}"]
              ELSE [mode |-> "manual", subject |-> f.subject, unit |-> f.unit,
                    skill |-> f.skill, subskill |-> f.subskill]]

InitGenerate ==
    /\ isGenerating = FALSE
    /\ generationError = Null
    /\ currentGeneration = 0
    /\ formError = Null
    /\ generating = 0
    /\ generated = 0
    /\ lastSubmit = NoSubmit

\* ------------------------------------------------------------------------
\* ContentProvider: the cached package list and the calls that maintain it
\* ------------------------------------------------------------------------
\* the packages the server holds when the library is opened
StoredPackages == {1, 2}

\* a package object: its id and the kind of call whose response carried it
Package(id, src) == [id |-> id, src |-> src]

\* the body of a 2xx answer to the list request: the packages the server
\* holds, in the order of their ids
RECURSIVE listBody(_)
listBody(S) ==
    IF S = {} THEN <<>>
    ELSE LET m == CHOOSE x \in S : \A y \in S : x <= y
         IN <<Package(m, "list")>> \o listBody(S \ {m})

\* refreshPackages: setPackages(data)
afterList(prev, body) == body

\* generateContent: setPackages(prev => [result, ...prev])
afterGenerate(prev, result) == <<result>> \o prev

\* deletePackage: setPackages(prev => prev.filter(pkg => pkg.id !== packageId))
afterDelete(prev, packageId) ==
    SelectSeq(prev, LAMBDA pkg : pkg.id # packageId)

\* a getPackage that also caches a package the list does not hold
afterGetAddsMissing(prev, packageId, packageData) ==
    IF \E i \in DOMAIN prev : prev[i].id = packageId
    THEN [i \in DOMAIN prev |->
             IF prev[i].id = packageId THEN packageData ELSE prev[i]]
    ELSE Append(prev, packageData)

\* getPackage: setPackages(prev => prev.map(pkg =>
\*                 pkg.id === packageId ? packageData : pkg))
afterGet(prev, packageId, packageData) ==
    [i \in DOMAIN prev |->
        IF prev[i].id = packageId THEN packageData ELSE prev[i]]

\* the ContentAPI method behind each call of the store
storeEndpoint(kind) ==
    CASE kind = "list" -> "listContentPackages"
      [] kind = "generate" -> "generateContent"
      [] kind = "delete" -> "deleteContentPackage"
      [] OTHER -> "getContentPackage"

\* what the store's try block ends with for an answer: the API method's
\* outcome, and deletePackage throws when deleteContentPackage returns false
storeOutcome(kind, http) ==
    LET o == apiOutcome(storeEndpoint(kind), http, "nodetail")
    IN IF kind = "delete" /\ o.value = "false"
       THEN Threw("Failed to delete package")
       ELSE o

ids(list) == {list[i].id : i \in DOMAIN list}

NoStore == [kind |-> Null, id |-> 0, http |-> 0, body |-> <<>>]

InitStore ==
    /\ packages = <<>>
    /\ storeLoading = FALSE
    /\ storeError = Null
    /\ storePending = EmptyBag
    /\ storeOps = 0
    /\ libraryMounted = FALSE
    /\ serverPackages = StoredPackages
    /\ deleted = {}
    /\ lastStore = NoStore

\* ------------------------------------------------------------------------
\* ContentAPI.getContentPackage and the producer GenerationProgress hands
\* to usePolling
\* ------------------------------------------------------------------------
\* the outcome of getContentPackage for a response status: the parsed body
\* (a fresh object, named by the call) or the Error thrown
getContentPackage(id, http) ==
    IF http = 200 THEN [ok |-> TRUE, value |-> id, message |-> Null]
    ELSE IF http = 404
         THEN [ok |-> FALSE, value |-> 0, message |-> "Content package not found"]
         ELSE [ok |-> FALSE, value |-> 0,
               message |-> "Failed to retrieve content package"]

\* a test that finds 'not found' in no message
includesNotFoundNever(m) == FALSE

\* err.message.includes('not found') over the messages the client throws
includesNotFound(m) == m \in {"Content package not found", "Package not found"}

\* the inline async producer of GenerationProgress
packageProducer(id, http) ==
    LET r == getContentPackage(id, http)
    IN IF r.ok THEN r
       ELSE IF includesNotFound(r.message)
            THEN [ok |-> TRUE, value |-> 0, message |-> Null]
            ELSE r

\* ------------------------------------------------------------------------
\* GenerationProgress
\* ------------------------------------------------------------------------
\* the updater passed to setCurrentStage by the stage interval
nextStageUncapped(prev) == prev + 1

nextStage(prev) == IF prev < NumStages - 1 THEN prev + 1 ELSE prev

\* the completion effect without its !isComplete guard
completionFiresUnguarded(packageData, complete) == packageData # 0

\* the guard of the completion effect
completionFires(packageData, complete) == packageData # 0 /\ ~complete

getProgressPercentage ==
    IF isComplete THEN 100 ELSE (currentStage * 100) \div NumStages

InitHook ==
    /\ life = "new"
    /\ enabled = FALSE
    /\ data = 0
    /\ loading = FALSE
    /\ error = Null
    /\ intervalRef = 0
    /\ timers = {}
    /\ inflight = {}
    /\ issued = 0
    /\ dirty = TRUE

InitTracker ==
    /\ currentStage = 0
    /\ isComplete = FALSE
    /\ trackerError = Null
    /\ stageTimer = FALSE
    /\ depData = 0
    /\ depComplete = FALSE
    /\ depError = Null
    /\ onCompleteId = 1
    /\ depOnComplete = 0
    /\ completeCalls = 0
    /\ completedAt = [stage |-> 0, data |-> 0]
    /\ packageReturned = FALSE

Init ==
    /\ InitHook /\ InitTracker /\ InitReview /\ InitApi /\ InitGenerate /\ InitStore
    /\ lastEvent = "init"

\* One render of GenerationProgress followed by its effects, in the order
\* the component declares them: usePolling's effect, the stage timer, the
\* completion check, the error copy.  The producer is an inline arrow
\* function, so fetchFn, fetchData and startPolling are new at every render.
TrackerRender ==
    /\ life \in {"new", "mounted"}
    /\ dirty
    /\ LET en == ~isComplete
           first == life = "new"
           h1 == pollingEffect([Hook EXCEPT !.dirty = FALSE], en, first, TRUE)
           stageRuns == first \/ isComplete # depComplete
           completionRuns == \/ first
                             \/ data # depData
                             \/ isComplete # depComplete
                             \/ onCompleteId # depOnComplete
           fires == completionRuns /\ completionFires(data, isComplete)
           errorRuns == (first \/ error # depError) /\ error # Null
       IN /\ h1.issued <= MaxFetch
          /\ life' = "mounted"
          /\ enabled' = en
          /\ stageTimer' = IF stageRuns THEN ~isComplete ELSE stageTimer
          /\ isComplete' = (isComplete \/ fires)
          /\ currentStage' = IF fires THEN NumStages ELSE currentStage
          /\ completeCalls' = IF fires THEN completeCalls + 1 ELSE completeCalls
          /\ completedAt' = IF fires THEN [stage |-> currentStage, data |-> data]
                                      ELSE completedAt
          \* onComplete is GeneratePage.handleGenerationComplete: its
          \* setIsGenerating(false) re-renders the page, which hands down a
          \* new handleGenerationComplete
          /\ onCompleteId' = IF fires THEN onCompleteId + 1 ELSE onCompleteId
          /\ trackerError' = IF errorRuns THEN error ELSE trackerError
          /\ depData' = data
          /\ depComplete' = isComplete
          /\ depError' = error
          /\ depOnComplete' = onCompleteId
          /\ UNCHANGED packageReturned
          /\ SetHook([h1 EXCEPT !.dirty = \/ h1.dirty
                                          \/ fires
                                          \/ (errorRuns /\ trackerError # error)])
    /\ UNCHANGED reviewVars
    /\ lastEvent' = "render"

\* the interval timer of usePolling fires: its callback is the fetchData of
\* the render that scheduled it, which closed over enabled = true
PollTick ==
    /\ \E t \in timers : TRUE
    /\ issued < MaxFetch
    /\ SetHook(fetchData(Hook, TRUE))
    /\ UNCHANGED <<life, enabled, trackerVars>>
    /\ UNCHANGED reviewVars
    /\ lastEvent' = "tick"

\* the 20 s stage timer fires
StageTick ==
    /\ stageTimer
    /\ currentStage' = nextStage(currentStage)
    /\ dirty' = (dirty \/ currentStage' # currentStage)
    /\ UNCHANGED <<life, enabled, data, loading, error, intervalRef, timers,
                   inflight, issued>>
    /\ UNCHANGED <<isComplete, trackerError, stageTimer, depData, depComplete,
                   depError, onCompleteId, depOnComplete, completeCalls,
                   completedAt, packageReturned>>
    /\ UNCHANGED reviewVars
    /\ lastEvent' = "stage"

\* a package fetch settles with some response status; the calls settle in
\* any order.  After unmount React drops the state updates.
PackageFetchSettles ==
    /\ \E id \in inflight, http \in HttpStatus :
          LET r == packageProducer(id, http)
              h1 == fetchSettled(Hook, id, r.ok, r.value, r.message)
          IN /\ IF life = "mounted"
                THEN SetHook(h1)
                ELSE SetHook([Hook EXCEPT !.inflight = inflight \ {id}])
             /\ packageReturned' = (packageReturned \/ (r.ok /\ r.value # 0))
             /\ lastEvent' = CASE http = 200 -> "settle200"
                               [] http = 404 -> "settle404"
                               [] OTHER -> "settle500"
    /\ UNCHANGED <<life, enabled, currentStage, isComplete, trackerError,
                   stageTimer, depData, depComplete, depError, onCompleteId,
                   depOnComplete, completeCalls, completedAt>>
    /\ UNCHANGED reviewVars

\* GeneratePage re-renders for a reason of its own and hands the tracker a
\* new onComplete function
ParentRender ==
    /\ life = "mounted"
    /\ onCompleteId - completeCalls <= MaxParentRenders
    /\ onCompleteId' = onCompleteId + 1
    /\ dirty' = TRUE
    /\ UNCHANGED <<life, enabled, data, loading, error, intervalRef, timers,
                   inflight, issued>>
    /\ UNCHANGED <<currentStage, isComplete, trackerError, stageTimer, depData,
                   depComplete, depError, depOnComplete, completeCalls,
                   completedAt, packageReturned>>
    /\ UNCHANGED reviewVars
    /\ lastEvent' = "parent"

\* the consumer unmounts: every effect's cleanup runs
Unmount ==
    /\ life = "mounted"
    /\ life' = "unmounted"
    /\ SetHook([stopPolling(Hook) EXCEPT !.dirty = FALSE])
    /\ stageTimer' = FALSE
    /\ UNCHANGED <<enabled, currentStage, isComplete, trackerError, depData,
                   depComplete, depError, onCompleteId, depOnComplete,
                   completeCalls, completedAt, packageReturned>>
    /\ UNCHANGED reviewVars
    /\ lastEvent' = "unmount"

Next ==
    \/ TrackerRender
    \/ PollTick
    \/ StageTick
    \/ PackageFetchSettles
    \/ ParentRender
    \/ Unmount

Spec == Init /\ [][Next]_vars

SpecReview == Init /\ [][NextReview]_vars

\* ------------------------------------------------------------------------
\* The review page once both of its loads have been answered, for a package
\* the server holds in any status: only the status of the package changes
\* from here on.
\* ------------------------------------------------------------------------
InitLoaded ==
    /\ InitHook /\ InitTracker /\ InitApi /\ InitGenerate /\ InitStore
    /\ \E s \in Statuses :
          /\ package_ = [loaded |-> TRUE, status |-> s]
          /\ currentStatus = s
          /\ reviewInfo = [loaded |-> TRUE, current_status |-> s]
    /\ loadingPackage = FALSE
    /\ loadingReview = FALSE
    /\ isSubmittingRevision = FALSE
    /\ revisionComponent = Null
    /\ revisionHistory = EmptyList
    /\ isSubmitting = FALSE
    /\ statusChanged = FALSE
    /\ saveStatus = Null
    /\ saveTimers = 0
    /\ pending = EmptyBag
    /\ sent = [get |-> 3, status |-> 0, revise |-> 0]
    /\ lastRequest = NoRequest
    /\ ops = 0
    /\ lastCall = NoCall
    /\ lastResponse = NoResponse
    /\ lastAlert = NoAlert
    /\ lastChat = NoChat
    /\ lastEvent = "loaded"

NextStatus ==
    \/ ConfirmStatus
    \/ SavePackage
    \/ ApprovePackage
    \/ StatusAnswered
    \/ SaveStatusTimeout
    \/ ReviewInfoAnswered

SpecStatus == InitLoaded /\ [][NextStatus]_vars

\* ------------------------------------------------------------------------
\* usePolling under an arbitrary consumer: at every render the consumer
\* passes some `enabled` and either the producer of the previous render or
\* a new function; between renders it may call refresh().
\* ------------------------------------------------------------------------
ConsumerRender ==
    /\ life \in {"new", "mounted"}
    /\ \E en \in BOOLEAN, freshFn \in BOOLEAN :
          LET first == life = "new"
              changed == (en # enabled) \/ freshFn
              h1 == pollingEffect([Hook EXCEPT !.dirty = FALSE], en, first, changed)
          IN /\ h1.issued <= MaxFetch
             /\ enabled' = en
             /\ SetHook(h1)
    /\ life' = "mounted"
    /\ UNCHANGED trackerVars
    /\ UNCHANGED reviewVars
    /\ lastEvent' = "render"

\* the consumer calls the refresh returned by its latest render
Refresh ==
    /\ life = "mounted"
    /\ enabled => issued < MaxFetch
    /\ SetHook(refresh(Hook, enabled))
    /\ UNCHANGED <<life, enabled, trackerVars>>
    /\ UNCHANGED reviewVars
    /\ lastEvent' = "refresh"

\* a producer call settles: it resolves with a fresh value or it throws
ProducerSettles ==
    /\ \E id \in inflight, ok \in BOOLEAN :
          /\ IF life = "mounted"
             THEN SetHook(fetchSettled(Hook, id, ok, id, "An error occurred"))
             ELSE SetHook([Hook EXCEPT !.inflight = inflight \ {id}])
          /\ lastEvent' = IF ok THEN "settleOk" ELSE "settleFail"
    /\ UNCHANGED <<life, enabled, trackerVars>>
    /\ UNCHANGED reviewVars

NextHook ==
    \/ ConsumerRender
    \/ PollTick
    \/ Refresh
    \/ ProducerSettles
    \/ Unmount

SpecHook == Init /\ [][NextHook]_vars

\* ------------------------------------------------------------------------
\* ContentAPI on its own: a method is called and its request is answered
\* ------------------------------------------------------------------------
ApiCallAnswered ==
    /\ \E endpoint \in Endpoints, http \in ApiHttp, body \in ApiBodies :
          /\ apiCall' = [endpoint |-> endpoint, http |-> http, body |-> body]
          /\ apiResult' = apiOutcome(endpoint, http, body)
    /\ UNCHANGED <<hookVars, trackerVars, pageVars, histVars, panelVars, netVars,
                   ghostVars, genVars, storeVars>>
    /\ lastEvent' = "apiCall"

NextApi == ApiCallAnswered

SpecApi == Init /\ [][NextApi]_vars

\* ------------------------------------------------------------------------
\* GeneratePage: the form is submitted, the generation request is answered
\* ------------------------------------------------------------------------
\* handleSubmit of the form up to its await, and GeneratePage's
\* handleGenerateContent up to its await when the form calls onSubmit.
\* This is the handler as the form's submit operation; the button that
\* calls it carries `disabled={submitDisabled}`.
FormSubmit ==
    /\ currentGeneration = 0
    /\ \E f \in Forms :
          /\ lastSubmit' = f
          /\ IF requiredMissing(f)
             THEN /\ formError' = IF f.form = "enhanced" THEN validationMessage(f)
                                                         ELSE formError
                  /\ lastAlert' = IF f.form = "basic"
                                  THEN Msg("Please fill in all required fields")
                                  ELSE NoAlert
                  /\ lastRequest' = NoRequest
                  /\ UNCHANGED <<isGenerating, generationError, generating,
                                 generated>>
             ELSE /\ generated < MaxOps
                  /\ formError' = IF f.form = "enhanced" THEN Null ELSE formError
                  /\ lastAlert' = NoAlert
                  /\ isGenerating' = TRUE
                  /\ generationError' = Null
                  /\ generating' = generating + 1
                  /\ generated' = generated + 1
                  /\ lastRequest' = generateContentEnhanced(f)
    /\ UNCHANGED currentGeneration
    /\ UNCHANGED <<pending, sent, ops>>
    /\ lastCall' = NoCall
    /\ lastResponse' = NoResponse
    /\ lastChat' = NoChat
    /\ UNCHANGED <<hookVars, trackerVars, pageVars, histVars, panelVars, apiVars,
                   storeVars>>
    /\ lastEvent' = "formSubmit"

\* generateContentEnhanced after its await, and handleGenerateContent after
\* it: the package returned is tracked, or the catch block runs
GenerationAnswered ==
    /\ generating > 0
    /\ generating' = generating - 1
    /\ \E ok \in BOOLEAN :
       \E detail \in (IF ok THEN {Null} ELSE {Null, "server detail"}) :
          /\ IF ok
             THEN /\ currentGeneration' = 1
                  /\ UNCHANGED <<isGenerating, generationError>>
             ELSE /\ isGenerating' = FALSE
                  /\ generationError' =
                         errorMessage(detail, "Failed to generate enhanced content")
                  /\ UNCHANGED currentGeneration
          /\ lastEvent' = IF ok THEN "generateOk" ELSE "generateFail"
    /\ UNCHANGED <<formError, generated>>
    /\ lastSubmit' = NoSubmit
    /\ lastRequest' = NoRequest
    /\ lastAlert' = NoAlert
    /\ lastCall' = NoCall
    /\ lastResponse' = NoResponse
    /\ UNCHANGED <<pending, sent, ops>>
    /\ lastChat' = NoChat
    /\ UNCHANGED <<hookVars, trackerVars, pageVars, histVars, panelVars, apiVars,
                   storeVars>>

\* handleGenerationComplete, the onComplete of the tracker
GenerationComplete ==
    /\ currentGeneration # 0
    /\ isGenerating' = FALSE
    /\ UNCHANGED <<generationError, currentGeneration, formError, generating,
                   generated>>
    /\ lastSubmit' = NoSubmit
    /\ lastRequest' = NoRequest
    /\ lastAlert' = NoAlert
    /\ lastCall' = NoCall
    /\ lastResponse' = NoResponse
    /\ UNCHANGED <<pending, sent, ops>>
    /\ lastChat' = NoChat
    /\ UNCHANGED <<hookVars, trackerVars, pageVars, histVars, panelVars, apiVars,
                   storeVars>>
    /\ lastEvent' = "generationComplete"

\* startNewGeneration: a new form mounts, with no error of its own
StartNewGeneration ==
    /\ currentGeneration # 0
    /\ currentGeneration' = 0
    /\ isGenerating' = FALSE
    /\ generationError' = Null
    /\ formError' = Null
    /\ UNCHANGED <<generating, generated>>
    /\ lastSubmit' = NoSubmit
    /\ lastRequest' = NoRequest
    /\ lastAlert' = NoAlert
    /\ lastCall' = NoCall
    /\ lastResponse' = NoResponse
    /\ UNCHANGED <<pending, sent, ops>>
    /\ lastChat' = NoChat
    /\ UNCHANGED <<hookVars, trackerVars, pageVars, histVars, panelVars, apiVars,
                   storeVars>>
    /\ lastEvent' = "startNewGeneration"

\* clearError, the Dismiss button of the error banner
ClearError ==
    /\ generationError # Null
    /\ generationError' = Null
    /\ UNCHANGED <<isGenerating, currentGeneration, formError, generating,
                   generated>>
    /\ lastSubmit' = NoSubmit
    /\ lastRequest' = NoRequest
    /\ lastAlert' = NoAlert
    /\ lastCall' = NoCall
    /\ lastResponse' = NoResponse
    /\ UNCHANGED <<pending, sent, ops>>
    /\ lastChat' = NoChat
    /\ UNCHANGED <<hookVars, trackerVars, pageVars, histVars, panelVars, apiVars,
                   storeVars>>
    /\ lastEvent' = "clearError"

NextGenerate ==
    \/ FormSubmit
    \/ GenerationAnswered
    \/ GenerationComplete
    \/ StartNewGeneration
    \/ ClearError

SpecGenerate == Init /\ [][NextGenerate]_vars

\* ------------------------------------------------------------------------
\* ContentProvider: calls and their answers.  The server handles a request
\* when it is sent; its answer arrives later, in any order.
\* ------------------------------------------------------------------------
\* a method of the store up to its await: setLoading(true), setError(null)
\* and the request
storeCall(kind, id, http) ==
    LET ok == ~storeOutcome(kind, http).threw
    IN /\ storeLoading' = TRUE
       /\ storeError' = Null
       /\ serverPackages' =
              CASE ok /\ kind = "generate" -> serverPackages \cup {id}
                [] ok /\ kind = "delete" -> serverPackages \ {id}
                [] OTHER -> serverPackages
       /\ storePending' = storePending (+) SetToBag({
              [kind |-> kind, id |-> id, http |-> http,
               body |-> IF ok /\ kind = "list" THEN listBody(serverPackages)
                                               ELSE <<>>]})
       /\ lastStore' = NoStore
       /\ UNCHANGED <<packages, deleted>>
       /\ UNCHANGED <<hookVars, trackerVars, pageVars, histVars, panelVars,
                      apiVars, netVars, ghostVars, genVars>>

\* LibraryPage mounts: its effect calls refreshPackages()
LibraryMount ==
    /\ ~libraryMounted
    /\ libraryMounted' = TRUE
    /\ \E http \in {200, 500} : storeCall("list", 0, http)
    /\ UNCHANGED storeOps
    /\ lastEvent' = "storeCall"

\* refreshPackages from the Refresh or Try Again button
RefreshPackages ==
    /\ libraryMounted
    /\ storeOps < MaxOps
    /\ \E http \in {200, 500} : storeCall("list", 0, http)
    /\ storeOps' = storeOps + 1
    /\ UNCHANGED libraryMounted
    /\ lastEvent' = "storeCall"

\* generateContent, from LibraryPage.handleDuplicate: the server names the
\* new package
GeneratePackage ==
    /\ libraryMounted
    /\ storeOps < MaxOps
    /\ packages # <<>>
    /\ \E http \in {200, 500} :
          storeCall("generate", Cardinality(StoredPackages) + storeOps + 1, http)
    /\ storeOps' = storeOps + 1
    /\ UNCHANGED libraryMounted
    /\ lastEvent' = "storeCall"

\* deletePackage, from LibraryPage.handleDelete for a package of the list;
\* the server answers 404 for a package it does not hold
DeletePackage ==
    /\ libraryMounted
    /\ storeOps < MaxOps
    /\ \E id \in ids(packages) :
       \E http \in (IF id \in serverPackages THEN {200, 500} ELSE {404}) :
          storeCall("delete", id, http)
    /\ storeOps' = storeOps + 1
    /\ UNCHANGED libraryMounted
    /\ lastEvent' = "storeCall"

\* getPackage, from the review page of a package
GetPackage ==
    /\ libraryMounted
    /\ storeOps < MaxOps
    /\ \E id \in StoredPackages :
       \E http \in (IF id \in serverPackages THEN {200, 500} ELSE {404}) :
          storeCall("get", id, http)
    /\ storeOps' = storeOps + 1
    /\ UNCHANGED libraryMounted
    /\ lastEvent' = "storeCall"

\* a call of the store after its await: the try block ends, then finally
StoreAnswered ==
    /\ \E r \in BagToSet(storePending) :
          LET o == storeOutcome(r.kind, r.http)
          IN /\ storePending' = storePending (-) SetToBag({r})
             /\ lastStore' = r
             /\ IF ~o.threw
                THEN /\ packages' =
                          CASE r.kind = "list" -> afterList(packages, r.body)
                            [] r.kind = "generate" ->
                                 afterGenerate(packages, Package(r.id, "generate"))
                            [] r.kind = "delete" -> afterDelete(packages, r.id)
                            [] OTHER -> afterGet(packages, r.id, Package(r.id, "get"))
                     /\ deleted' = IF r.kind = "delete" THEN deleted \cup {r.id}
                                                        ELSE deleted
                     /\ UNCHANGED storeError
                ELSE /\ storeError' = o.message
                     /\ UNCHANGED <<packages, deleted>>
             /\ lastEvent' = IF o.threw THEN "storeFail" ELSE "storeOk"
    /\ storeLoading' = FALSE
    /\ UNCHANGED <<storeOps, libraryMounted, serverPackages>>
    /\ UNCHANGED <<hookVars, trackerVars, pageVars, histVars, panelVars,
                   apiVars, netVars, ghostVars, genVars>>

\* clearError
StoreClearError ==
    /\ storeError # Null
    /\ storeError' = Null
    /\ lastStore' = NoStore
    /\ UNCHANGED <<packages, storeLoading, storePending, storeOps,
                   libraryMounted, serverPackages, deleted>>
    /\ UNCHANGED <<hookVars, trackerVars, pageVars, histVars, panelVars,
                   apiVars, netVars, ghostVars, genVars>>
    /\ lastEvent' = "storeClearError"

NextStore ==
    \/ LibraryMount
    \/ RefreshPackages
    \/ GeneratePackage
    \/ DeletePackage
    \/ GetPackage
    \/ StoreAnswered
    \/ StoreClearError

SpecStore == Init /\ [][NextStore]_vars

\* ========================================================================
\* Claims
\* ========================================================================

\* C1: while the tracker is not complete a package fetch is issued only when
\* tracking starts (the first render) and at a tick of the polling timer,
\* and a re-render of the tracker neither issues a fetch nor replaces the
\* scheduled timer.
C1_FetchOnlyAtStartAndTicks ==
    [][ /\ (issued' # issued) =>
              (lastEvent' = "tick" \/ (lastEvent' = "render" /\ life = "new"))
        /\ (lastEvent' = "render" /\ life = "mounted" /\ ~isComplete) =>
              (intervalRef' = intervalRef /\ timers' = timers)
      ]_vars

PollingOff == life = "unmounted" \/ (life = "mounted" /\ ~enabled)

C6_InvokedOnlyOnEnableTickRefresh ==
    [][ /\ (issued' # issued) =>
              \/ lastEvent' \in {"tick", "refresh"}
              \/ (lastEvent' = "render" /\ ~enabled /\ enabled')
        /\ (life' = "mounted" /\ enabled') => intervalRef' \in timers'
      ]_vars

\* C7: a tick of the interval timer always issues a producer call, also
\* when earlier calls are still in flight.
C7_TickIssuesWhileInFlight ==
    [][ lastEvent' = "tick" =>
            /\ issued' = issued + 1
            /\ inflight' = inflight \cup {issued'}
            /\ issued' \notin inflight ]_vars

\* a tick fired while a call was in flight: two calls are in flight
C7_Witness ==
    /\ lastEvent = "tick"
    /\ Cardinality(inflight) >= 2

\* C2: after every successful status update the locally held status equals
\* the new_status of the server's response.
C2_StatusEqualsServerNewStatus ==
    lastEvent = "statusOk" => currentStatus = lastResponse.status

\* C3: a status-update call with a target other than approved and blank
\* notes issues no request and leaves the locally held status unchanged.
C3_BlankNotesRejectedBeforePut ==
    [][ ( /\ lastEvent' = "statusCall"
          /\ lastCall'.status # "approved"
          /\ trim(lastCall'.text) = <<>> )
        => ( /\ lastRequest' = NoRequest
             /\ sent' = sent
             /\ pending' = pending
             /\ currentStatus' = currentStatus ) ]_vars

\* a rejection with whitespace-only notes was turned down with an alert
C3_Witness ==
    /\ lastEvent = "statusCall"
    /\ lastCall.status = "rejected"
    /\ lastCall.text = <<" ">>
    /\ lastRequest = NoRequest
    /\ lastAlert = Msg("Please provide review notes")

\* C8: after a successful revision submission the package held and the
\* locally held status are those of the response body.
C8_StatusFromRevisedPackage ==
    lastEvent = "reviseOk" =>
        (package_.status = lastResponse.status /\ currentStatus = lastResponse.status)

\* C9: a revision submitted from the review page issues exactly one request,
\* PUT /content/{id}/revise, whose revisions array holds the one revision
\* submitted; no other step issues a revise request; and after a 200 answer
\* whose package has status needs_revision the locally held status is
\* needs_revision.
C9_OneReviseRequestCarriesRevision ==
    [][ /\ (lastCall'.op = "handleRevisionRequest") =>
              /\ sent' = [sent EXCEPT !.revise = @ + 1]
              /\ lastRequest'.method = "PUT"
              /\ lastRequest'.path = "/content/{id}/revise"
              /\ lastRequest'.body.revisions =
                     <<[component_type |-> lastCall'.component,
                        feedback |-> lastCall'.text,
                        priority |-> lastCall'.priority]>>
        /\ (lastCall'.op # "handleRevisionRequest") => sent'.revise = sent.revise
        /\ (lastEvent' = "reviseOk" /\ lastResponse'.status = "needs_revision")
              => currentStatus' = "needs_revision"
      ]_vars

\* the one revise request of a submission was answered 200 with a package
\* whose status is needs_revision
C9_Witness ==
    /\ lastEvent = "reviseOk"
    /\ lastResponse.status = "needs_revision"
    /\ currentStatus = "needs_revision"
    /\ sent.revise = 1

\* C10: a revision submission with blank feedback issues no request and
\* shows the user an error.
C10_BlankFeedbackNoRequestAndError ==
    [][ (lastEvent' = "revisionSubmit" /\ trim(lastCall'.text) = <<>>)
        => (lastRequest' = NoRequest /\ sent' = sent /\ lastAlert' # NoAlert)
      ]_vars

\* C11: when a revision submission fails, the package and the status held
\* are unchanged, the user is shown the error message (the server's detail
\* when the response has one, else the endpoint's fallback), no further
\* request is issued, and the submitting flag is false again.
C11_FailedRevisionLeavesStateAndAlerts ==
    [][ lastEvent' = "reviseFail" =>
          /\ package_' = package_
          /\ currentStatus' = currentStatus
          /\ lastAlert' = <<"Revision request failed:",
                            IF lastResponse'.detail # Null
                            THEN lastResponse'.detail
                            ELSE "Failed to revise content package">>
          /\ sent' = sent
          /\ lastRequest' = NoRequest
          /\ ~isSubmittingRevision'
      ]_vars

\* the one revise request of a submission failed with a server detail
C11_Witness ==
    /\ lastEvent = "reviseFail"
    /\ lastResponse.detail = "server detail"
    /\ lastAlert = <<"Revision request failed:", "server detail">>
    /\ sent.revise = 1
    /\ ~isSubmittingRevision

\* C12: starting a status update leaves the status held unchanged, and a
\* failed status update leaves it unchanged and shows the user an error
\* (an alert, or the save button's error state).
C12_StatusOnlyAfterSuccessFailureShown ==
    [][ /\ (lastEvent' = "statusCall") => currentStatus' = currentStatus
        /\ (lastEvent' = "statusFail") =>
              /\ currentStatus' = currentStatus
              /\ (lastAlert' # NoAlert \/ saveStatus' = "error")
      ]_vars

\* C13: a package fetch answered 404 while the tracker is mounted and
\* incomplete clears the hook's error, leaves the tracker's error and
\* completion as they were and leaves the polling timer scheduled; and the
\* render that follows such a fetch (no data, no error) leaves the tracker's
\* error and completion as they were, with polling enabled and a timer
\* scheduled.
C13_NotFoundIsNotAnError ==
    [][ /\ (lastEvent' = "settle404" /\ life = "mounted" /\ ~isComplete) =>
              /\ error' = Null
              /\ data' = 0
              /\ trackerError' = trackerError
              /\ ~isComplete'
              /\ enabled'
              /\ timers' = timers
              /\ intervalRef' = intervalRef
              /\ intervalRef' \in timers'
        /\ ( /\ lastEvent' = "render" /\ life = "mounted"
             /\ ~isComplete /\ data = 0 /\ error = Null ) =>
              /\ trackerError' = trackerError
              /\ ~isComplete'
              /\ enabled'
              /\ intervalRef' \in timers'
      ]_vars

\* the second package fetch was answered 404 and the tracker keeps polling
\* without an error
C13_Witness ==
    /\ lastEvent = "settle404"
    /\ life = "mounted"
    /\ issued >= 2
    /\ inflight = {}
    /\ trackerError = Null
    /\ error = Null
    /\ ~isComplete
    /\ enabled
    /\ intervalRef \in timers

C15_HistoryIsAlwaysAnArray ==
    [][ /\ revisionHistory.array
        /\ revisionHistory'.array
        /\ \A b \in HistoryBodies :
              getRevisionHistory(404, b) = [ok |-> TRUE, value |-> EmptyList]
        /\ (lastResponse'.history = 404) => revisionHistory' = EmptyList
        /\ (lastEvent' = "historyAnswered" /\ ~lastResponse'.ok) =>
              revisionHistory' = revisionHistory
      ]_vars

\* the history re-fetch after a revision failed and the page keeps the
\* entries it had loaded
C15_Witness ==
    /\ lastEvent = "historyAnswered"
    /\ lastResponse.history = 500
    /\ revisionHistory = [array |-> TRUE, items |-> <<"revision">>]

\* C16: confirming an approval with empty or whitespace-only notes raises no
\* alert and issues exactly one request, PUT /packages/{id}/status, with
\* status approved and notes "Package approved for publication".
C16_ApproveWithoutNotesUsesDefault ==
    [][ ( /\ lastEvent' = "statusCall"
          /\ lastCall'.op = "handleStatusUpdate"
          /\ lastCall'.status = "approved"
          /\ trim(lastCall'.text) = <<>> )
        => ( /\ lastAlert' = NoAlert
             /\ sent' = [sent EXCEPT !.status = @ + 1]
             /\ lastRequest'.method = "PUT"
             /\ lastRequest'.path = "/packages/{id}/status"
             /\ lastRequest'.body.status = "approved"
             /\ lastRequest'.body.notes = Msg("Package approved for publication") )
      ]_vars

\* an approval with whitespace-only notes went out with the default notes
C16_Witness ==
    /\ lastEvent = "statusCall"
    /\ lastCall.op = "handleStatusUpdate"
    /\ lastCall.status = "approved"
    /\ lastCall.text = <<" ">>
    /\ sent.status = 1
    /\ lastRequest.body.notes = Msg("Package approved for publication")

C18_ReviewInfoRefetchedAfterStatusChange ==
    [][ lastEvent' = "statusOk" =>
          /\ lastRequest' = Get("/packages/{id}/review-info")
          /\ sent' = [sent EXCEPT !.get = @ + 1]
      ]_vars

\* C19: every client call answered with a non-2xx status throws, and the
\* message thrown is the detail of the response body when it has one and
\* the method's fallback message otherwise.
C19_NonOkAlwaysThrows ==
    (apiCall.endpoint # Null /\ ~responseOk(apiCall.http)) =>
        /\ apiResult.threw
        /\ apiResult.message = (IF apiCall.body = "detail" THEN "server detail"
                                ELSE fallbackMessage(apiCall.endpoint))

\* C20: the tracker is complete only if some package fetch returned a
\* package; while it is not complete the displayed progress is below 100,
\* whatever the stage timer did; and after every render that follows the
\* return of a package by some fetch the tracker is complete.
C20_CompleteIffPackageReturned ==
    /\ isComplete => packageReturned
    /\ ~isComplete => getProgressPercentage < 100
    /\ (lastEvent = "render" /\ packageReturned) => isComplete

\* C21 (amended): the client checks no transition legality.  From every
\* current status (all seven) a status update to each status a
\* ReviewStatusUpdate can carry (approved, rejected, needs_revision,
\* under_review) can be requested whenever the page is idle, and when a
\* status request succeeds the locally held status is the status the request
\* asked for.
RequestsStatus(t) ==
    /\ ConfirmStatus \/ SavePackage \/ ApprovePackage
    /\ lastRequest' # NoRequest
    /\ lastRequest'.body.status = t

PageIdle == PageShown /\ ~loadingReview /\ pending = EmptyBag /\ ops < MaxOps

FieldsMissing(f) ==
    IF f.mode = "curriculum" THEN ~f.selectedSubskill
    ELSE \E k \in {"subject", "unit", "skill", "subskill"} : f[k] = <<>>

C22_MissingFieldNoRequestAndError ==
    [][ (lastEvent' = "formSubmit" /\ FieldsMissing(lastSubmit')) =>
            /\ lastRequest' = NoRequest
            /\ generated' = generated
            /\ generating' = generating
            /\ \/ formError' = validationMessage(lastSubmit')
               \/ lastAlert' = Msg("Please fill in all required fields")
            /\ isGenerating' = isGenerating
            /\ currentGeneration' = currentGeneration
      ]_vars

\* a manual form without its subskill was submitted while a generation was
\* running
C22_Witness ==
    /\ lastEvent = "formSubmit"
    /\ lastSubmit.mode = "manual"
    /\ lastSubmit.subject # <<>> /\ lastSubmit.unit # <<>>
    /\ lastSubmit.skill # <<>> /\ lastSubmit.subskill = <<>>
    /\ formError = "Please fill in all required fields"
    /\ isGenerating
    /\ generated = 1

C24_DataIsLatestIssuedResult ==
    [][ (life = "mounted" /\ lastEvent' = "settleOk") => data' >= data ]_vars

\* C25: once deletePackage has succeeded for a package, the cached list does
\* not hold it in any later state (the server never serves a package again
\* after deleting it, so no list request issued after the delete returns it).
C25_DeletedStaysAbsent == \A x \in deleted : x \notin ids(packages)

\* C26: once a status change has succeeded on the review page (status
\* update, save, approve or revision), the answer to a package or
\* review-info request issued before that change does not overwrite the
\* locally held status.  The two load requests are issued when the page is
\* constructed, before every change.
C26_StaleLoadKeepsStatus ==
    [][ (statusChanged /\ lastEvent' \in {"packageLoaded", "reviewDataLoaded"})
            => currentStatus' = currentStatus ]_vars

\* C27: when the initial package load and the initial review-info load have
\* both succeeded, and before any status change of the reviewer, the locally
\* held status is the review info's current_status, in whichever order the
\* two answers arrived.
C27_StatusFromReviewInfoAfterLoads ==
    (package_.loaded /\ reviewInfo.loaded /\ ~statusChanged
         /\ ~loadingPackage /\ ~loadingReview)
      => currentStatus = reviewInfo.current_status

\* C28: in the visual-demo chat the assistant's confirmation is appended to
\* the chat history only when the revision request has succeeded (the
\* handler returns after the history re-fetch that follows a success); when
\* the revision request of the chat fails, the failure message is appended
\* and no confirmation.
C28_ChatConfirmsOnlySuccess ==
    [][ /\ lastChat' = "confirmation" => lastEvent' = "historyAnswered"
        /\ (lastEvent' = "reviseFail" /\ lastResponse'.origin = "chat")
              => lastChat' = "failure"
      ]_vars

\* C29: on the review page the submitting-revision flag is true in every
\* state in which a revision submission is under way (its revise request or
\* the history re-fetch that follows it is in flight), also when two
\* components are submitted one after the other, and false in every state in
\* which none is.
RevisionInFlight ==
    \E r \in BagToSet(pending) : r.kind \in {"revise", "history"}

C29_FlagTracksRevisionsInFlight == isSubmittingRevision <=> RevisionInFlight

\* C30: the tracker's stage index never decreases; while the tracker is
\* incomplete the index stays within 0..6, however many stage ticks fire,
\* and the displayed progress is below 100%; once the tracker is complete
\* the index is 7 and a later stage tick leaves it there.
C30_StageIndexMonotoneAndCapped ==
    [][ /\ currentStage' >= currentStage
        /\ ~isComplete' => /\ currentStage' >= 0
                           /\ currentStage' <= NumStages - 1
                           /\ getProgressPercentage' < 100
        /\ isComplete' => currentStage' = NumStages
        /\ (isComplete /\ lastEvent' = "stage") =>
               currentStage' = currentStage ]_vars

\* a stage tick fired after completion, its timer not yet cleared, and the
\* index is still 7
C30_Witness ==
    /\ lastEvent = "stage"
    /\ isComplete
    /\ stageTimer
    /\ currentStage = NumStages

====
